---- MODULE Spec2Model ----
(***************************************************************************)
(* A model of rxprop: notifiers and their bindings (notifier.py), the      *)
(* dependency-tracking stack and DependencyCollection (reactive.py), the   *)
(* reactive property wrapper (reactive_property.py), value properties      *)
(* (value_property.py) and computed properties (computed_property.py).     *)
(*                                                                         *)
(* One object `obj` carries three value-backed reactive properties         *)
(* (a, b, flag), one hand-written observable attribute x whose getter      *)
(* calls announce_dependency and whose setter fires its notifier, and      *)
(* three computed properties:                                              *)
(*     sel   = a if flag else b                                            *)
(*     cx    = x * 10, raising when x = 0                                  *)
(*     chain = sel + cx                                                    *)
(* User code owns two DependencyCollections: the handler of u1 is a mock   *)
(* that counts its calls, the handler of u2 also reads obj.cx again.       *)
(* Every property access is one atomic action (the library is              *)
(* synchronous); a                                                         *)
(* `with listen_for_dependencies()` block of user code is two actions, its *)
(* entry and its exit, with arbitrary user operations in between.          *)
(*                                                                         *)
(* obj also has a reactive property rp backed by a getter and a setter     *)
(* over the field _rp.  User code binds four handlers to rp's notifier     *)
(* and keeps each binding in a variable of its own: h1 reads obj.rp, h2    *)
(* disposes the binding of h1, h3 binds h1 once more, h4 raises.           *)
(*                                                                         *)
(* Two asyncio tasks w1 and w2 of user code each iterate over one watch    *)
(* stream (watchf of reactive.py, or watchp of watch.py): a stream is      *)
(* started, asked for its next value, woken by a firing, resumed by the    *)
(* event loop after its sleep(0), and closed, each in one action.  obj     *)
(* also has a value property lst whose value is a ReactiveList.            *)
(*                                                                         *)
(* User code may drop its reference to obj; obj is freed when nothing      *)
(* else refers to it.                                                      *)
(*                                                                         *)
(* The notifier of a property is created on first use and then lives as    *)
(* long as obj; the model names it after its property.                     *)
(***************************************************************************)
EXTENDS Integers, Sequences, FiniteSets, TLC

\* ---------------------------------------------------------------- bounds
MaxDepth == 2          \* user-level `with` blocks open at the same time
MaxCount == 2          \* cap of the counters `since` and `pending`, and of len(obj.lst)

\* ------------------------------------------------------------- universe
ValueProps == {"a", "b", "flag"}
Computeds == {"sel", "cx", "chain"}
UserColls == {"u1", "u2"}
\* The watch streams of user code; each owns the DependencyCollection
\* that watchf makes for it, named after it.
Watchers == {"w1", "w2"}
\* A notifier is named after the property (or attribute) that owns it;
\* "items" is the on_change notifier of the ReactiveList held by lst.
Notifiers == ValueProps \cup Computeds \cup {"x", "rp", "lst", "items"}
\* Two more collections of user code, whose handlers drop the dependencies
\* of u1 when they are called: d1 by u1.remove_dependency(notifier), d2 by
\* an empty `with u1.listen_for_dependencies():` block.
Droppers == {"d1", "d2"}
Colls == Computeds \cup UserColls \cup Watchers \cup Droppers

\* An entry of a per-instance dictionary is <<v>>; <<>> is "no entry".
NotSet == <<>>         \* no entry in ValueProperty._values
NoCache == <<>>        \* no entry in CachedPropertyMixin._cache_values
None == "None"

IntVals == {1, 2}
XVals == {0, 1}
ValuesOf(p) == IF p = "flag" THEN BOOLEAN ELSE IntVals
CacheVals(p) ==
    CASE p = "sel" -> {1, 2}
      [] p = "cx" -> {10}
      [] p = "chain" -> {11, 12}

\* The default factories of the value properties (fdefault).
Default(p) == CASE p = "a" -> 1 [] p = "b" -> 2 [] p = "flag" -> TRUE

\* The handlers of v's events.Notifier: two mocks of user code, and the
\* _put_value_in_queue of the watch_async stream on v.
EvMocks == {"m1", "m2"}
EvHandlers == EvMocks \cup {"put"}

\* Handlers: the trigger of a computed property, or the mock of a user
\* collection.  The mock of a collection in Rereaders reads obj.cx when it
\* is called.
Rereaders == {"u2"}
Trigger(p) == [kind |-> "trigger", of |-> p]
Mock(c) == [kind |-> "mock", of |-> c]
\* The handlers user code binds to the notifier of rp by hand.
UserHandlers == {"h1", "h2", "h3", "h4"}
User(h) == [kind |-> "user", of |-> h]
\* The handler watchf gives its collection: lambda _: changed.set()
Setter(w) == [kind |-> "setter", of |-> w]
Dropper(d) == [kind |-> "dropper", of |-> d]
Handlers ==
    {Trigger(p) : p \in Computeds} \cup {Mock(c) : c \in UserColls}
        \cup {User(h) : h \in UserHandlers} \cup {Setter(w) : w \in Watchers}
        \cup {Dropper(d) : d \in Droppers}
\* The handler field of a binding after unbind (None in the source).
NoHandler == [kind |-> "none", of |-> "none"]

\* DependencyCollection._handler as set by the constructor.
HandlerOf(c) ==
    IF c \in Computeds THEN Trigger(c)
    ELSE IF c \in Watchers THEN Setter(c)
    ELSE IF c \in Droppers THEN Dropper(c)
    ELSE Mock(c)

VARIABLES
    values,          \* ValueProperty._values, per value property
    xval,            \* obj._x, the field behind the hand-written attribute
    rpval,           \* obj._rp, the field behind the reactive property rp
    cache,           \* CachedPropertyMixin._cache_values, per computed
    compdeps,        \* computeds with an entry in _computed_dependencies
    bindings,        \* live _BindingLifetime objects: id -> fields
    nbindings,       \* Notifier._bindings (a WeakSet), per notifier
    cbindings,       \* DependencyCollection._bindings, per collection
    kept,            \* the binding user code keeps for each of its handlers
    watch,           \* the watch streams: position, source, Event, value
    lstlen,          \* len(obj.lst._values)
    inst,            \* obj: "held" by user code, "dropped" by it, or "freed"
    pv,              \* obj._v, the field behind the rx_property property v
    ehandlers,       \* events.Notifier._handlers of v's notifier
    queue,           \* the asyncio.Queue(1) of the watch_async stream on v
    qwatch,          \* that stream: position and the value last yielded
    dep_ctx_stack,   \* reactive._dep_ctx_stack
    listening,       \* the open with blocks of user code on that stack
    rp_dep_ctx_stack,\* reactive_property._dep_ctx_stack
    rp_listening,    \* the open with blocks of user code on that stack
    since,           \* values computed since a tracked dependency fired
    toggled,         \* progress of `read sel; toggle flag; read sel`
    last             \* what the last operation did (observation only)

vars == <<values, xval, rpval, cache, compdeps, bindings, nbindings,
          cbindings, kept, watch, lstlen, inst, pv, ehandlers, queue, qwatch,
          dep_ctx_stack, listening,
          rp_dep_ctx_stack, rp_listening, since, toggled, last>>

\* ------------------------------------------------------------- helpers
Min(x, y) == IF x < y THEN x ELSE y

Top(stk) == stk[Len(stk)]
Pop(stk) == SubSeq(stk, 1, Len(stk) - 1)
AddTop(stk, n) == [stk EXCEPT ![Len(stk)] = @ \cup {n}]

\* Restriction of a function to a subset of its domain.
Restrict(f, D) == [k \in D |-> f[k]]

ZeroFired == [n \in Notifiers |-> 0]
ZeroComputes == [p \in Computeds |-> 0]
ZeroCalls == [c \in UserColls |-> 0]
ZeroEvals == [w \in Watchers |-> 0]
ZeroEcalls == [h \in EvHandlers |-> 0]
ZeroFactory == [p \in ValueProps |-> 0]

\* The machine state threaded through the synchronous calls of one
\* operation.  `pins` are the bindings kept alive by the snapshot lists of
\* the fire calls in progress; the remaining transient fields record what
\* the operation did.  `order` is the order in which the fire calls of the
\* operation find the bindings in their snapshot lists, and `balanced`
\* says that every tracked computation so far has left the stack it found.
\* `log` lists, in order, what happened to the bindings of user handlers
\* (bind, call, dispose), and `seen` the values of obj.rp that h1 read.
\* `evals` counts the evaluations of each watch stream's function, and
\* `took` is the number of calls of the stream's handler that the
\* evaluation answers.
St ==
    [values |-> values, xval |-> xval, rpval |-> rpval, cache |-> cache,
     compdeps |-> compdeps,
     bindings |-> bindings, nbindings |-> nbindings, cbindings |-> cbindings,
     kept |-> kept, watch |-> watch, lstlen |-> lstlen, inst |-> inst,
     pv |-> pv, ehandlers |-> ehandlers, queue |-> queue, qwatch |-> qwatch,
     log |-> <<>>, seen |-> {},
     stack |-> dep_ctx_stack, rpstack |-> rp_dep_ctx_stack,
     since |-> since, pins |-> {}, order |-> "fwd", balanced |-> TRUE,
     fired |-> ZeroFired, computes |-> ZeroComputes, calls |-> ZeroCalls,
     evals |-> ZeroEvals, took |-> 0, ecalls |-> ZeroEcalls,
     factory |-> ZeroFactory, dropped |-> {}, late |-> 0]

\* A WeakSet is listed in no particular order.  The two orders of the
\* model are the reverse of each other, so any two handlers bound to one
\* notifier are called in either order.
Orders == {"fwd", "rev"}
StOrd(ord) == [St EXCEPT !.order = ord]

\* The result of a call: the state it leaves, the value it returns, and
\* whether it raised instead of returning.
Ret(s, v) == [s |-> s, val |-> v, exc |-> FALSE]
Raise(s) == [s |-> s, val |-> None, exc |-> TRUE]
\* A call that raised an exception of class e.
RaiseOf(s, e) == [s |-> s, val |-> e, exc |-> TRUE]

\* ------------------------------------------------ notifier.py: Notifier
\* A binding object is named by its notifier, its handler and a serial
\* number that tells apart several bindings of one handler to one notifier.
BindingId(n, h, k) == [n |-> n, h |-> h, k |-> k]
\* The value of a variable of user code that holds no binding.
NoBinding == [n |-> "none", h |-> NoHandler, k |-> 0]

NewBindingId(s, n, h) ==
    LET used == {i \in DOMAIN s.bindings : i.n = n /\ i.h = h}
        k == CHOOSE k \in 0..Cardinality(used) :
                 /\ BindingId(n, h, k) \notin used
                 /\ \A j \in 0..(k - 1) : BindingId(n, h, j) \in used
    IN BindingId(n, h, k)

\* Notifier.bind -> _BindingLifetime.__init__: the binding keeps a weak
\* reference to the notifier and a strong one to the handler, and adds
\* itself to the notifier's WeakSet.
NotifierBind(s, n, h) ==
    LET Bound(i) ==
            Ret([s EXCEPT
                     !.bindings = @ @@ (i :> [notifier |-> n, handler |-> h,
                                             disposed |-> "unset"]),
                     !.nbindings[n] = @ \cup {i}],
                i)
    IN Bound(NewBindingId(s, n, h))

\* The bindings something still refers to: the values of the collections'
\* dictionaries, the variables of user code and the snapshot lists of the
\* fire calls in progress.
Held(s) ==
    s.pins \cup {s.kept[h] : h \in UserHandlers} \cup
    UNION {{s.cbindings[c][n] : n \in DOMAIN s.cbindings[c]} : c \in Colls}

\* Reference counting frees a binding nothing refers to; the WeakSet of
\* its notifier drops it at that moment.
Collect(s) ==
    LET live == DOMAIN s.bindings \cap Held(s)
    IN [s EXCEPT !.bindings = Restrict(@, live),
                 !.nbindings = [n \in Notifiers |-> @[n] \cap live]]

\* What happened to a binding of a user handler, for the log; `bound`
\* says whether the notifier's set held the binding at that moment, and
\* `was` what its _is_disposed was.
Logged(s, ev, i) ==
    IF i.h.kind = "user"
    THEN [s EXCEPT !.log = Append(@, [ev |-> ev, id |-> i,
                                      bound |-> i \in s.nbindings[i.n],
                                      was |-> s.bindings[i].disposed])]
    ELSE s

\* An unbind that leaves the binding in the notifier's set.
BindingUnbindKeepsRegistered(s, i) ==
    Ret([s EXCEPT !.bindings[i].notifier = None], None)

\* An unbind that removes the binding from the set whether or not it has
\* been removed before.
BindingUnbindUnguarded(s, i) ==
    IF i \notin s.nbindings[i.n] THEN Raise(s)
    ELSE Ret([s EXCEPT !.nbindings[i.n] = @ \ {i},
                       !.bindings[i].notifier = None,
                       !.bindings[i].handler = NoHandler], None)

\* _BindingLifetime.unbind: a binding that still has its notifier is
\* removed from the notifier's WeakSet (KeyError if it is not there);
\* then the notifier and the handler are forgotten.
BindingUnbind(s, i) ==
    LET n == s.bindings[i].notifier
        cleared == [s.bindings EXCEPT ![i].notifier = None,
                                      ![i].handler = NoHandler]
    IN IF n = None THEN Ret([s EXCEPT !.bindings = cleared], None)
       ELSE IF i \notin s.nbindings[n] THEN Raise(s)
       ELSE Ret([s EXCEPT !.nbindings[n] = @ \ {i}, !.bindings = cleared],
                None)

\* _BindingLifetime._dispose, reached from dispose() and from __exit__:
\* unbind, then Disposable._dispose sets _is_disposed.
BindingDispose(s, i) ==
    LET Flag(r) ==
            IF r.exc THEN r
            ELSE Ret([r.s EXCEPT !.bindings[i].disposed = "True"], None)
    IN Flag(BindingUnbind(s, i))

\* Lifetime.is_alive on a binding: `not self._is_disposed`.  The attribute
\* is set by Disposable.__init__, which _BindingLifetime.__init__ does not
\* call, and by Disposable._dispose; reading it before that raises
\* AttributeError.
BindingIsAlive(s, i) ==
    IF s.bindings[i].disposed = "unset" THEN RaiseOf(s, "AttributeError")
    ELSE Ret(s, s.bindings[i].disposed # "True")

\* ------------------------------------ reactive.py: DependencyCollection
AddDependency(s, c, n) ==
    IF n \in DOMAIN s.cbindings[c] THEN s
    ELSE LET Keep(r) == [r.s EXCEPT !.cbindings[c] = (n :> r.val) @@ @]
         IN Keep(NotifierBind(s, n, HandlerOf(c)))

\* self._bindings.pop(notifier): the dictionary lets go of the binding.
RemoveDependency(s, c, n) ==
    Collect([s EXCEPT !.cbindings[c] = Restrict(@, DOMAIN @ \ {n})])

RECURSIVE AddAll(_, _, _)
AddAll(s, c, deps) ==
    IF deps = {} THEN s
    ELSE LET n == CHOOSE n \in deps : TRUE
         IN AddAll(AddDependency(s, c, n), c, deps \ {n})

RECURSIVE RemoveAll(_, _, _)
RemoveAll(s, c, deps) ==
    IF deps = {} THEN s
    ELSE LET n == CHOOSE n \in deps : TRUE
         IN RemoveAll(RemoveDependency(s, c, n), c, deps \ {n})

\* listen_for_dependencies up to the yield: push a fresh buffer.
ListenPush(s) == [s EXCEPT !.stack = Append(@, {})]

\* A finally block that binds the new dependencies and keeps the old ones.
ListenFinallyKeepsOld(s, c) ==
    AddAll([s EXCEPT !.stack = Pop(@)], c,
           Top(s.stack) \ DOMAIN s.cbindings[c])

\* The finally block of listen_for_dependencies: it runs on a normal exit
\* and on an exception alike.
ListenFinally(s, c) ==
    LET buffer == Top(s.stack)
        keys == DOMAIN s.cbindings[c]
        s1 == [s EXCEPT !.stack = Pop(@)]
        s2 == AddAll(s1, c, buffer \ keys)
    IN RemoveAll(s2, c, keys \ buffer)

\* An announcement that reaches every active frame.
AnnounceToAllFrames(s, n) ==
    [s EXCEPT !.stack = [i \in DOMAIN @ |-> @[i] \cup {n}]]

\* announce_dependency(notifier)
AnnounceDependency(s, n) ==
    IF s.stack # <<>> THEN [s EXCEPT !.stack = AddTop(@, n)] ELSE s

\* ------------------------- reactive_property.py: ReactivePropertyMixin
\* _announce_dependency: announces on the stack of reactive_property.py.
RpAnnounceDependency(s, p) ==
    IF s.rpstack # <<>> THEN [s EXCEPT !.rpstack = AddTop(@, p)] ELSE s

\* ReactiveProperty._get: ReactivePropertyMixin._get announces, then
\* GetterMixin._get returns what the getter reads from obj._rp.
RpGet(s) == Ret(RpAnnounceDependency(s, "rp"), s.rpval)

\* Notifier.fire, a handler call, and _fire_notifier call each other.
RECURSIVE Fire(_, _)
RECURSIVE FireList(_, _, _)
RECURSIVE Invoke(_, _)
RECURSIVE FireNotifier(_, _)
RECURSIVE ComputedGet(_, _)
RECURSIVE Compute(_, _)
RECURSIVE ComputedValueGet(_, _)

\* _fire_notifier that leaves the cache entry in place.
FireNotifierKeepsCache(s, p) == Fire(s, p)

\* _fire_notifier(instance): CachedPropertyMixin drops the cache entry
\* first; ReactivePropertyMixin fetches the notifier and fires it.
FireNotifier(s, p) ==
    LET s1 == IF p \in Computeds THEN [s EXCEPT !.cache[p] = NoCache] ELSE s
    IN Fire(s1, p)

\* A call of a handler of user code: h1 reads obj.rp and notes the value,
\* h2 disposes the binding kept for h1, h3 binds h1 once more and keeps
\* the new binding in place of the old one, h4 raises.
InvokeUser(s, h) ==
    LET Noted(r) == [r EXCEPT !.s.seen = @ \cup {r.val}]
        Kept(r) ==
            [r EXCEPT !.s = Logged([r.s EXCEPT !.kept["h1"] = r.val],
                                   "bind", r.val)]
        old == s.kept["h1"]
    IN CASE h = "h1" -> Noted(RpGet(s))
         [] h = "h2" -> IF old = NoBinding THEN Ret(s, None)
                        ELSE BindingDispose(Logged(s, "dispose", old), old)
         [] h = "h3" -> Kept(NotifierBind(s, "rp", User("h1")))
         [] h = "h4" -> Raise(s)

\* A set() that raises the flag and wakes nobody.
EventSetWakesNobody(s, w) ==
    [s EXCEPT !.watch[w] =
         [@ EXCEPT !.changed = TRUE, !.pending = Min(@ + 1, MaxCount)]]

\* changed.set() of watcher w: the flag is set, and a task that waits in
\* changed.wait() is made ready to run.  `pending` counts the calls since
\* the watcher last evaluated its function.
EventSet(s, w) ==
    [s EXCEPT !.watch[w] =
         [@ EXCEPT !.changed = TRUE,
                   !.pending = Min(@ + 1, MaxCount),
                   !.pc = IF @ = "waiting" THEN "woken" ELSE @]]

\* A clear() that clears the flag of every stream.
EventClearAll(s, w) ==
    [s EXCEPT !.watch = [v \in Watchers |-> [@[v] EXCEPT !.changed = FALSE]]]

\* A clear() that leaves the flag as it is.
EventClearKeepsFlag(s, w) == s

\* changed.clear() of watcher w.
EventClear(s, w) == [s EXCEPT !.watch[w].changed = FALSE]

\* The handler of dropper d makes collection c drop what it tracks; the
\* operation remembers in `dropped` that c had something to drop.
Drop(s, d, c) ==
    LET had == DOMAIN s.cbindings[c]
        s1 == [s EXCEPT !.dropped = IF had # {} THEN @ \cup {c} ELSE @]
    IN IF d = "d1" THEN RemoveAll(s1, c, had)
       ELSE ListenFinally(ListenPush(s1), c)

\* A call of handler h: a trigger is _fire_notifier of its property, a
\* mock records the call and, for a rereader, reads obj.cx; the handler of
\* a watcher sets its Event.
Invoke(s, h) ==
    IF h.kind = "trigger" THEN FireNotifier(s, h.of)
    ELSE IF h.kind = "user" THEN InvokeUser(s, h.of)
    ELSE IF h.kind = "setter" THEN Ret(EventSet(s, h.of), None)
    ELSE IF h.kind = "dropper" THEN Ret(Drop(s, h.of, "u1"), None)
    ELSE LET s1 == [s EXCEPT !.calls[h.of] = @ + 1,
                             !.late = IF h.of \in s.dropped THEN @ + 1
                                      ELSE @]
         IN IF h.of \in Rereaders THEN ComputedGet(s1, "cx")
            ELSE Ret(s1, None)

\* The place of a binding in a snapshot list, and the binding that comes
\* first among `todo` in the given order.
Rank(i) ==
    LET hr == CASE i.h = Trigger("sel") -> 0
                [] i.h = Trigger("cx") -> 1
                [] i.h = Trigger("chain") -> 2
                [] i.h = Mock("u1") -> 3
                [] i.h = Mock("u2") -> 4
                [] i.h = User("h1") -> 5
                [] i.h = User("h2") -> 6
                [] i.h = User("h3") -> 7
                [] i.h = User("h4") -> 8
                [] i.h = Setter("w1") -> 9
                [] i.h = Setter("w2") -> 10
                [] i.h = Dropper("d1") -> 11
                [] i.h = Dropper("d2") -> 12
    IN hr * 100 + i.k
First(todo, order) ==
    CHOOSE i \in todo : \A j \in todo :
        IF order = "fwd" THEN Rank(i) <= Rank(j) ELSE Rank(i) >= Rank(j)

\* A loop that also calls the bindings made while it runs.
FireListLive(s, n, todo) ==
    IF todo = {} THEN Ret(s, None)
    ELSE LET Rest(i, r) ==
                 IF r.exc THEN r
                 ELSE FireList(r.s, n, (todo \ {i}) \cup
                                       (r.s.nbindings[n] \ s.nbindings[n]))
             Call(i) ==
                 Rest(i, IF /\ i \in s.nbindings[n]
                            /\ s.bindings[i].handler # NoHandler
                         THEN Invoke(Logged(s, "call", i),
                                     s.bindings[i].handler)
                         ELSE Ret(s, None))
         IN Call(First(todo, s.order))

\* A loop that goes on after a handler raised, and swallows the exception.
FireListIsolates(s, n, todo) ==
    IF todo = {} THEN Ret(s, None)
    ELSE LET Rest(i, r) == FireList(r.s, n, todo \ {i})
             Call(i) ==
                 Rest(i, IF /\ i \in s.nbindings[n]
                            /\ s.bindings[i].handler # NoHandler
                         THEN Invoke(Logged(s, "call", i),
                                     s.bindings[i].handler)
                         ELSE Ret(s, None))
         IN Call(First(todo, s.order))

\* The loop of Notifier.fire over the snapshot `todo`: a binding is called
\* if it is still in the WeakSet and still has a handler; an exception of
\* a handler ends the loop.
FireList(s, n, todo) ==
    IF todo = {} THEN Ret(s, None)
    ELSE LET Rest(i, r) ==
                 IF r.exc THEN r ELSE FireList(r.s, n, todo \ {i})
             Call(i) ==
                 Rest(i, IF /\ i \in s.nbindings[n]
                            /\ s.bindings[i].handler # NoHandler
                         THEN Invoke(Logged(s, "call", i),
                                     s.bindings[i].handler)
                         ELSE Ret(s, None))
         IN Call(First(todo, s.order))

\* A fire that calls no handler.
FireNothing(s, n) == Ret([s EXCEPT !.fired[n] = @ + 1], None)

\* Notifier.fire: the bindings are listed first, and the list keeps them
\* alive until the call ends.  The call is counted in `fired`, and it
\* resets `since` for the computed properties that track the notifier.
Fire(s, n) ==
    LET snapshot == s.nbindings[n]
        tracking == {q \in Computeds : n \in DOMAIN s.cbindings[q]}
        s1 == [s EXCEPT !.pins = @ \cup snapshot,
                        !.fired[n] = @ + 1,
                        !.since = [q \in Computeds |->
                                     IF q \in tracking THEN 0 ELSE @[q]]]
        Done(r) == [r EXCEPT !.s = Collect([r.s EXCEPT !.pins = s.pins])]
    IN Done(FireList(s1, n, snapshot))

\* -------------------------------------- value_property.py: ValueProperty
\* ReactiveValueProperty._get: ReactivePropertyMixin._get announces, then
\* ValueProperty._get returns the stored value, or stores the default
\* that DefaultMixin._get makes.
ValueGet(s, p) ==
    LET Stored(s1) ==
            IF s1.values[p] # NotSet THEN Ret(s1, s1.values[p][1])
            ELSE Ret([s1 EXCEPT !.values[p] = <<Default(p)>>,
                                !.factory[p] = @ + 1], Default(p))
    IN Stored(RpAnnounceDependency(s, p))

\* A write that stores and fires without comparing.
ValueSetAlwaysFires(s, p, v) ==
    LET Store(r) == FireNotifier([r.s EXCEPT !.values[p] = <<v>>], p)
    IN Store(ValueGet(s, p))

\* ReactiveValueProperty._set: reads the old value through _get and, only
\* if the new one differs, stores it (ValueProperty._set) and fires the
\* notifier (ReactivePropertyMixin._set).
ValueSet(s, p, v) ==
    LET Store(r) ==
            IF r.val # v
            THEN FireNotifier([r.s EXCEPT !.values[p] = <<v>>], p)
            ELSE Ret(r.s, None)
    IN Store(ValueGet(s, p))

\* ------------------- the hand-written observable attribute x of obj
\* getter: announce_dependency(self.on_x_change); return self._x
XGet(s) == Ret(AnnounceDependency(s, "x"), s.xval)

\* setter: self._x = value; self.on_x_change.fire(None)
XSet(s, v) == Fire([s EXCEPT !.xval = v], "x")

\* ------------------------------ reactive_property.py: ReactiveProperty
\* A write that fires before it stores.
RpSetFiresFirst(s, v) ==
    LET Store(r) == IF r.exc THEN r ELSE [r EXCEPT !.s.rpval = v]
    IN Store(FireNotifier(s, "rp"))

\* ReactiveProperty._set: SetterMixin._set stores through the setter
\* (obj._rp = value); then ReactivePropertyMixin._set fires the notifier.
RpSet(s, v) == FireNotifier([s EXCEPT !.rpval = v], "rp")

\* ------------------------------ computed_property.py: ComputedProperty
\* _get_computed_dependencies: the collection of a computed property is
\* created on first use, with the property's trigger as its handler.
GetComputedDependencies(s, p) ==
    IF p \in s.compdeps THEN s
    ELSE [s EXCEPT !.compdeps = @ \cup {p}]


\* The compute functions (fget) of the three computed properties.
Compute(s, p) ==
    CASE p = "sel" ->
           LET Branch(f) == ValueGet(f.s, IF f.val THEN "a" ELSE "b")
           IN Branch(ValueGet(s, "flag"))
      [] p = "cx" ->
           LET Scale(r) ==
                   IF r.val = 0 THEN Raise(r.s) ELSE Ret(r.s, r.val * 10)
           IN Scale(XGet(s))
      [] p = "chain" ->
           LET Sum(r1, r2) ==
                   IF r2.exc THEN r2 ELSE Ret(r2.s, r1.val + r2.val)
               Second(r1) ==
                   IF r1.exc THEN r1 ELSE Sum(r1, ComputedGet(r1.s, "cx"))
           IN Second(ComputedGet(s, "sel"))

\* A getter run that unwinds the tracking frame only when it returns.
ComputedValueGetNoUnwind(s, p) ==
    LET s1 == ListenPush(GetComputedDependencies(s, p))
        Finish(r) ==
            IF r.exc THEN r ELSE [r EXCEPT !.s = ListenFinally(r.s, p)]
    IN Finish(Compute([s1 EXCEPT !.computes[p] = @ + 1], p))

\* ComputedValueMixin._get: run the getter inside the collection's
\* listen_for_dependencies block.
ComputedValueGet(s, p) ==
    LET s1 == ListenPush(GetComputedDependencies(s, p))
        Unwound(r, s3) ==
            [r EXCEPT !.s = [s3 EXCEPT !.balanced = @ /\ s3.stack = s.stack]]
        Finish(r) ==
            Unwound(r, ListenFinally(
                           IF r.exc THEN r.s
                           ELSE [r.s EXCEPT !.since[p] = Min(@ + 1, MaxCount)],
                           p))
    IN Finish(Compute([s1 EXCEPT !.computes[p] = @ + 1], p))

\* A read that runs the getter whether or not a value is cached.
ComputedGetRecomputes(s, p) ==
    LET Cache(r) ==
            IF r.exc THEN r
            ELSE Ret([r.s EXCEPT !.cache[p] = <<r.val>>], r.val)
    IN Cache(ComputedValueGet(s, p))

\* A read that caches 0 when the getter raises.
ComputedGetCachesFailure(s, p) ==
    IF s.cache[p] # NoCache
    THEN Ret(AnnounceDependency(s, p), s.cache[p][1])
    ELSE LET Cache(r) ==
                 IF r.exc THEN [r EXCEPT !.s.cache[p] = <<0>>]
                 ELSE Ret([r.s EXCEPT !.cache[p] = <<r.val>>], r.val)
         IN Cache(ComputedValueGet(s, p))

\* CachedPropertyMixin._get: a cached value is returned after announcing
\* the property's own notifier; otherwise the value is computed and cached.
ComputedGet(s, p) ==
    IF s.cache[p] # NoCache
    THEN Ret(AnnounceDependency(s, p), s.cache[p][1])
    ELSE LET Cache(r) ==
                 IF r.exc THEN r
                 ELSE Ret([r.s EXCEPT !.cache[p] = <<r.val>>], r.val)
         IN Cache(ComputedValueGet(s, p))

\* CachedPropertyMixin._set: nothing happens if the value equals the cached
\* one; otherwise the value is cached and _fire_notifier is called.
ComputedSet(s, p, v) ==
    IF s.cache[p] # NoCache /\ s.cache[p][1] = v THEN Ret(s, None)
    ELSE FireNotifier([s EXCEPT !.cache[p] = <<v>>], p)

\* ------------------------------------------------------- state machine
EmptyFn == [k \in {} |-> None]

\* A watch stream nobody has started.
NoQWatch == [pc |-> "idle", val |-> <<>>]
NoWatch == [pc |-> "idle", src |-> None, by |-> None, changed |-> FALSE,
            pending |-> 0, val |-> <<>>]

\* The operations that hand a value to their caller when they return.
Yielding ==
    {"ReadValue", "ReadX", "ReadComputed", "ReadRp", "RpListenExit",
     "UserBind", "WatchStart", "WatchNameStart", "WatchResume", "ReadList",
     "QWatchStart", "QWatchWake", "UserIsAlive"}

NoOp == [op |-> "init", arg |-> None, val |-> <<>>, err |-> None,
         exc |-> FALSE,
         balanced |-> TRUE,
         fired |-> ZeroFired, computes |-> ZeroComputes, calls |-> ZeroCalls,
         log |-> <<>>, seen |-> {}, rpwas |-> 1, evals |-> ZeroEvals,
         took |-> 0, ecalls |-> ZeroEcalls, factory |-> ZeroFactory,
         dropped |-> {}, late |-> 0]

Init ==
    /\ values = [p \in ValueProps |-> NotSet]
    /\ xval = 1
    /\ rpval = 1
    /\ cache = [p \in Computeds |-> NoCache]
    /\ compdeps = {}
    /\ bindings = EmptyFn
    /\ nbindings = [n \in Notifiers |-> {}]
    /\ cbindings = [c \in Colls |-> EmptyFn]
    /\ kept = [h \in UserHandlers |-> NoBinding]
    /\ watch = [w \in Watchers |-> NoWatch]
    /\ lstlen = 0
    /\ inst = "held"
    /\ pv = 1
    /\ ehandlers = EmptyFn
    /\ queue = <<>>
    /\ qwatch = NoQWatch
    /\ dep_ctx_stack = <<>>
    /\ listening = <<>>
    /\ rp_dep_ctx_stack = <<>>
    /\ rp_listening = <<>>
    /\ since = ZeroComputes
    /\ toggled = 0
    /\ last = NoOp

\* How far the last operations got through the sequence
\*     read sel; write a different value to flag; read sel
\* with nothing in between: 3 says the sequence has just been completed.
Toggled(op, arg, r) ==
    LET readSel == op = "ReadComputed" /\ arg = "sel" /\ ~r.exc
        toggle == op = "WriteValue" /\ arg = "flag" /\ r.s.fired["flag"] > 0
    IN CASE readSel /\ toggled = 2 -> 3
         [] readSel /\ toggled # 2 -> 1
         [] toggle /\ toggled \in {1, 3} -> 2
         [] OTHER -> 0

\* The operation `op` on `arg` ended with result r: its state is the next
\* state, and `last` says what it returned (<<v>>, or <<>> for nothing)
\* or which exception it raised, what it did, and what obj._rp was when
\* it started.
Commit(op, arg, r) ==
    /\ values' = r.s.values
    /\ xval' = r.s.xval
    /\ rpval' = r.s.rpval
    /\ cache' = r.s.cache
    /\ compdeps' = r.s.compdeps
    /\ bindings' = r.s.bindings
    /\ nbindings' = r.s.nbindings
    /\ cbindings' = r.s.cbindings
    /\ kept' = r.s.kept
    /\ watch' = r.s.watch
    /\ lstlen' = r.s.lstlen
    /\ inst' = r.s.inst
    /\ pv' = r.s.pv
    /\ ehandlers' = r.s.ehandlers
    /\ queue' = r.s.queue
    /\ qwatch' = r.s.qwatch
    /\ dep_ctx_stack' = r.s.stack
    /\ rp_dep_ctx_stack' = r.s.rpstack
    /\ since' = r.s.since
    /\ toggled' = Toggled(op, arg, r)
    /\ last' = [op |-> op, arg |-> arg,
                val |-> IF ~r.exc /\ op \in Yielding THEN <<r.val>> ELSE <<>>,
                err |-> IF r.exc THEN r.val ELSE None,
                exc |-> r.exc,
                balanced |-> r.s.balanced,
                fired |-> r.s.fired, computes |-> r.s.computes,
                calls |-> r.s.calls, log |-> r.s.log, seen |-> r.s.seen,
                rpwas |-> rpval, evals |-> r.s.evals, took |-> r.s.took,
                ecalls |-> r.s.ecalls, factory |-> r.s.factory,
                dropped |-> r.s.dropped, late |-> r.s.late]

\* value = obj.p for a value property
ReadValue(p) ==
    /\ Commit("ReadValue", p, ValueGet(St, p))
    /\ UNCHANGED <<listening, rp_listening>>

\* obj.p = v for a value property
WriteValue(p, v) ==
    /\ \E ord \in Orders : Commit("WriteValue", p, ValueSet(StOrd(ord), p, v))
    /\ UNCHANGED <<listening, rp_listening>>

\* value = obj.x
ReadX ==
    /\ Commit("ReadX", "x", XGet(St))
    /\ UNCHANGED <<listening, rp_listening>>

\* obj.x = v
WriteX(v) ==
    /\ \E ord \in Orders : Commit("WriteX", "x", XSet(StOrd(ord), v))
    /\ UNCHANGED <<listening, rp_listening>>

\* value = obj.p for a computed property
ReadComputed(p) ==
    /\ Commit("ReadComputed", p, ComputedGet(St, p))
    /\ UNCHANGED <<listening, rp_listening>>

\* obj.p = v for a computed property
WriteComputed(p, v) ==
    /\ \E ord \in Orders :
           Commit("WriteComputed", p, ComputedSet(StOrd(ord), p, v))
    /\ UNCHANGED <<listening, rp_listening>>

\* The with blocks user code has open, on either stack.
Depth == Len(listening) + Len(rp_listening)

\* User code enters `with c.listen_for_dependencies():`.  The block
\* remembers its collection and, for the record, the stack it found.
ListenEnter(c) ==
    /\ Depth < MaxDepth
    /\ Commit("ListenEnter", c, Ret(ListenPush(St), None))
    /\ listening' = Append(listening, [coll |-> c, found |-> dep_ctx_stack])
    /\ UNCHANGED rp_listening

\* User code leaves the innermost with block, normally or by an exception
\* raised in its body.
ListenExit(exc) ==
    /\ listening # <<>>
    /\ Commit("ListenExit", Top(listening).coll,
              [s |-> ListenFinally(St, Top(listening).coll),
               val |-> None, exc |-> exc])
    /\ listening' = Pop(listening)
    /\ UNCHANGED rp_listening

\* reactive_property.listen_for_dependencies(buffer) up to the yield: a
\* fresh set is pushed on the stack of reactive_property.py.
RpListenPush(s) == [s EXCEPT !.rpstack = Append(@, {})]

\* Its finally block, without a handler: pop, then make `buffer` equal to
\* the set of announced notifiers.
RpListenFinally(s, buffer) ==
    LET new_deps == Top(s.rpstack)
        added == buffer \cup (new_deps \ buffer)
    IN Ret([s EXCEPT !.rpstack = Pop(@)], added \ (added \ new_deps))

\* User code enters `with listen_for_dependencies(buffer):` of
\* reactive_property.py with an empty buffer.
RpListenEnter ==
    /\ Depth < MaxDepth
    /\ Commit("RpListenEnter", None, Ret(RpListenPush(St), None))
    /\ rp_listening' = Append(rp_listening, [found |-> rp_dep_ctx_stack])
    /\ UNCHANGED listening

\* User code leaves that block, normally or by an exception; the value of
\* the operation is the buffer it is left with.
RpListenExit(exc) ==
    /\ rp_listening # <<>>
    /\ Commit("RpListenExit", None,
              [RpListenFinally(St, {}) EXCEPT !.exc = exc])
    /\ rp_listening' = Pop(rp_listening)
    /\ UNCHANGED listening

\* ------------------------------------- reactive_list.py: ReactiveList
\* obj.lst is a reactive value property that holds a ReactiveList; the
\* model keeps the length of the list.  ReactivePropertyMixin._get
\* announces the property's notifier on the stack of reactive_property.py
\* and returns the value; the value's own notifier (on_change, "items")
\* is announced nowhere.
ListGet(s) == Ret(RpAnnounceDependency(s, "lst"), s.lstlen)

\* obj.lst.append(v): the list is read from the property, the item is
\* added, and the list's notifier is fired.
ListAppend(s) ==
    LET Added(r) == Fire([r.s EXCEPT !.lstlen = @ + 1], "items")
    IN Added(ListGet(s))

\* value = obj.lst
ReadList ==
    /\ Commit("ReadList", "lst", ListGet(St))
    /\ UNCHANGED <<listening, rp_listening>>

\* obj.lst.append(v), while the list is shorter than the model's bound.
AppendList ==
    /\ lstlen < MaxCount
    /\ \E ord \in Orders : Commit("AppendList", "lst", ListAppend(StOrd(ord)))
    /\ UNCHANGED <<listening, rp_listening>>

\* ------------------------------------------------ reactive.py: watchf
\* What a watch stream evaluates: obj.x, a computed property or obj.flag.
\* watchp with a property reference is
\* watchf(lambda: property.get(instance)).
Sources == {"x", "cx", "flag"}
Eval(s, src) ==
    CASE src = "x" -> XGet(s)
      [] src \in Computeds -> ComputedGet(s, src)
      [] src = "flag" -> ValueGet(s, "flag")

\* The finally block of reactive_property.listen_for_dependencies with a
\* handler: after the pop, the first new or dropped dependency is asked
\* for add_handler or remove_handler, which Notifier does not have.
RpListenFinallyHandler(s, buffer) ==
    LET new_deps == Top(s.rpstack)
        s1 == [s EXCEPT !.rpstack = Pop(@)]
    IN IF new_deps \ buffer # {} \/ buffer \ new_deps # {}
       THEN RaiseOf(s1, "AttributeError")
       ELSE Ret(s1, None)

\* A loop body that swallows the exception of the function and yields
\* the value it yielded before.
WatchComputeSwallows(s, w) ==
    LET Yield(r) ==
            IF r.exc
            THEN Ret([r.s EXCEPT !.watch[w].pc = "yielded"], 0)
            ELSE [r EXCEPT !.s.watch[w] =
                               [@ EXCEPT !.pc = "yielded", !.val = <<r.val>>]]
        Leave(r) == [r EXCEPT !.s = ListenFinally(r.s, w)]
    IN Yield(Leave(Eval(ListenPush([s EXCEPT
                                        !.watch[w].pending = 0,
                                        !.took = s.watch[w].pending,
                                        !.evals[w] = @ + 1]),
                        s.watch[w].src)))

\* A loop body that yields inside its listen block: the frame it pushed
\* is still on the stack when the stream is suspended.
WatchComputeLeavesFrame(s, w) ==
    LET me == s.watch[w]
        Yield(r) ==
            IF r.exc THEN [r EXCEPT !.s.watch[w].pc = "done"]
            ELSE [r EXCEPT !.s.watch[w] =
                               [@ EXCEPT !.pc = "yielded", !.val = <<r.val>>]]
        Enter(s1) == IF me.by = "f" THEN ListenPush(s1) ELSE RpListenPush(s1)
    IN Yield(Eval(Enter([s EXCEPT !.watch[w].pending = 0,
                                  !.took = me.pending,
                                  !.evals[w] = @ + 1]),
                  me.src))

\* The body of the loop of watchf (and of watch_function for a stream
\* made by name) up to the yield: the function is evaluated inside the
\* listen block of the stream, the block's finally runs, and the value
\* is yielded; an exception ends the stream.
WatchCompute(s, w) ==
    LET me == s.watch[w]
        Yield(r) ==
            IF r.exc THEN [r EXCEPT !.s.watch[w].pc = "done"]
            ELSE [r EXCEPT !.s.watch[w] =
                               [@ EXCEPT !.pc = "yielded", !.val = <<r.val>>]]
        Merge(r, fin) == IF fin.exc THEN fin ELSE [r EXCEPT !.s = fin.s]
        Leave(r) ==
            IF me.by = "f" THEN [r EXCEPT !.s = ListenFinally(r.s, w)]
            ELSE Merge(r, RpListenFinallyHandler(r.s, {}))
        Enter(s1) == IF me.by = "f" THEN ListenPush(s1) ELSE RpListenPush(s1)
    IN Yield(Leave(Eval(Enter([s EXCEPT !.watch[w].pending = 0,
                                        !.took = me.pending,
                                        !.evals[w] = @ + 1]),
                        me.src)))

\* The consumer task of w takes the first value of watchf(f), or of
\* watchp(obj, property): the Event and the collection are made and the
\* loop body runs.
WatchStart(w, src) ==
    /\ watch[w].pc = "idle"
    /\ Commit("WatchStart", w,
              WatchCompute([St EXCEPT !.watch[w] =
                                [NoWatch EXCEPT !.src = src, !.by = "f"]], w))
    /\ UNCHANGED <<listening, rp_listening>>

\* The names user code passes to watchp: two reactive properties, the
\* plain attribute x, and a name the class does not have.
Names == {"flag", "cx", "x", "missing"}

\* watchp(instance, name): getattr on the class raises AttributeError for
\* a missing name, a value that is no ReactivePropertyMixin gives
\* ValueError, and otherwise prop.watch_async(instance) is returned
\* without running any of it.
Watchp(s, w, name) ==
    CASE name = "missing" -> RaiseOf(s, "AttributeError")
      [] name = "x" -> RaiseOf(s, "ValueError")
      [] OTHER -> Ret([s EXCEPT !.watch[w] =
                           [NoWatch EXCEPT !.pc = "named", !.src = name,
                                           !.by = "name"]], None)

\* The task of w calls watchp(obj, name).
WatchpCall(w, name) ==
    /\ watch[w].pc = "idle"
    /\ Commit("WatchpCall", name, Watchp(St, w, name))
    /\ UNCHANGED <<listening, rp_listening>>

\* The consumer task of w takes the first value of the stream it got from
\* watchp by name.
WatchNameStart(w) ==
    /\ watch[w].pc = "named"
    /\ Commit("WatchNameStart", w, WatchCompute(St, w))
    /\ UNCHANGED <<listening, rp_listening>>

\* A next step whose changed.wait() returns although the flag is clear.
WatchNextSkipsWait(w) ==
    /\ watch[w].pc = "yielded"
    /\ Commit("WatchNext", w,
              Ret([St EXCEPT !.watch[w].pc = "sleeping"], None))
    /\ UNCHANGED <<listening, rp_listening>>

\* The consumer asks for the next value: the generator goes on to
\* `await changed.wait()`, which returns at once if the flag is set, and
\* then to `await sleep(0)`, where the task leaves the processor.
WatchNext(w) ==
    /\ watch[w].pc = "yielded"
    /\ Commit("WatchNext", w,
              Ret([St EXCEPT !.watch[w].pc =
                       IF watch[w].changed THEN "sleeping" ELSE "waiting"],
                  None))
    /\ UNCHANGED <<listening, rp_listening>>

\* The event loop runs the task that changed.set() made ready:
\* changed.wait() returns and the task goes on to `await sleep(0)`.
WatchWake(w) ==
    /\ watch[w].pc = "woken"
    /\ Commit("WatchWake", w,
              Ret([St EXCEPT !.watch[w].pc = "sleeping"], None))
    /\ UNCHANGED <<listening, rp_listening>>

\* The event loop runs the task after its sleep(0): changed.clear(), then
\* the loop body.
WatchResume(w) ==
    /\ watch[w].pc = "sleeping"
    /\ Commit("WatchResume", w,
              WatchCompute(EventClear(St, w), w))
    /\ UNCHANGED <<listening, rp_listening>>

\* The consumer stops iterating (break, or aclose) while it holds a
\* value: GeneratorExit is raised at the yield, dependency_collection's
\* finally asserts that the collection exists, and the generator ends.
\* The collection is not disposed, and the finalizer that
\* Disposable.__init__ registers holds a bound method of it, so it is
\* never freed either.
WatchClose(w) ==
    /\ watch[w].pc = "yielded"
    /\ Commit("WatchClose", w,
              Ret([St EXCEPT !.watch[w].pc = "done"], None))
    /\ UNCHANGED <<listening, rp_listening>>

\* ------------------- reactive.py: DependencyCollection used directly
\* c.add_dependency(notifier of x) by user code, for a collection that
\* does not track it.
CollAdd(c) ==
    /\ "x" \notin DOMAIN cbindings[c]
    /\ Commit("CollAdd", c, Ret(AddDependency(St, c, "x"), None))
    /\ UNCHANGED <<listening, rp_listening>>

\* c.remove_dependency(notifier of x) by user code, for a collection that
\* tracks it.
CollRemove(c) ==
    /\ "x" \in DOMAIN cbindings[c]
    /\ Commit("CollRemove", c, Ret(RemoveDependency(St, c, "x"), None))
    /\ UNCHANGED <<listening, rp_listening>>

\* ------------------------------------------- events.py: Notifier
\* A remove_handler that forgets the handler at its first removal.
EvRemoveHandlerDrops(s, h) ==
    IF h \notin DOMAIN s.ehandlers THEN RaiseOf(s, "KeyError")
    ELSE Ret([s EXCEPT !.ehandlers = Restrict(@, DOMAIN @ \ {h})], None)

\* Notifier.add_handler: setdefault(handler, 0), then the count goes up.
EvAddHandler(s, h) ==
    IF h \in DOMAIN s.ehandlers
    THEN Ret([s EXCEPT !.ehandlers[h] = @ + 1], None)
    ELSE Ret([s EXCEPT !.ehandlers = (h :> 1) @@ @], None)

\* Notifier.remove_handler: the count is looked up (KeyError for a handler
\* that is not in the dictionary) and goes down; at zero the entry is
\* deleted.
EvRemoveHandler(s, h) ==
    IF h \notin DOMAIN s.ehandlers THEN RaiseOf(s, "KeyError")
    ELSE IF s.ehandlers[h] - 1 = 0
    THEN Ret([s EXCEPT !.ehandlers = Restrict(@, DOMAIN @ \ {h})], None)
    ELSE Ret([s EXCEPT !.ehandlers[h] = @ - 1], None)

\* rx_property's GetterMixin read of obj.v through __get__; nothing in the
\* model listens on the stack of rx_property.py, so nothing is announced.
VGet(s) == Ret(s, s.pv)

\* _put_value_in_queue of the stream: the present value of v is read and
\* put in the queue; QueueFull is swallowed, so a full queue keeps what it
\* has.
EvPut(s) ==
    LET Put(r) ==
            IF r.s.queue # <<>> THEN Ret(r.s, None)
            ELSE Ret([r.s EXCEPT !.queue = <<r.val>>], None)
    IN Put(VGet(s))

\* A call of a handler of v's notifier: a mock counts the call.
EvInvoke(s, h) ==
    LET s1 == [s EXCEPT !.ecalls[h] = @ + 1]
    IN IF h = "put" THEN EvPut(s1) ELSE Ret(s1, None)

\* The loop of Notifier.fire over the list of keys taken at its start: a
\* handler is called if it is still in the dictionary.  The handlers of
\* the model do not touch one another, so the order of the list does not
\* show.
RECURSIVE EvFireList(_, _)
EvFireList(s, todo) ==
    IF todo = {} THEN Ret(s, None)
    ELSE LET h == CHOOSE h \in todo : TRUE
             Rest(r) == IF r.exc THEN r ELSE EvFireList(r.s, todo \ {h})
         IN IF h \in DOMAIN s.ehandlers THEN Rest(EvInvoke(s, h))
            ELSE EvFireList(s, todo \ {h})

\* Notifier.fire()
EvFire(s) == EvFireList(s, DOMAIN s.ehandlers)

\* rx_property.ReactivePropertyMixin._set: SetterMixin._set stores through
\* the setter (obj._v = value), then the notifier is fired.
VSet(s, v) == EvFire([s EXCEPT !.pv = v])

\* notifier.add_handler(m) by user code, while the count is below the
\* model's bound.
EvAdd(h) ==
    /\ h \in DOMAIN ehandlers => ehandlers[h] < MaxCount
    /\ Commit("EvAdd", h, EvAddHandler(St, h))
    /\ UNCHANGED <<listening, rp_listening>>

\* notifier.remove_handler(m) by user code, registered or not.
EvRemove(h) ==
    /\ Commit("EvRemove", h, EvRemoveHandler(St, h))
    /\ UNCHANGED <<listening, rp_listening>>

\* notifier.fire() by user code.
EvFireAll ==
    /\ Commit("EvFireAll", None, EvFire(St))
    /\ UNCHANGED <<listening, rp_listening>>

\* obj.v = v
WriteV(v) ==
    /\ Commit("WriteV", "v", VSet(St, v))
    /\ UNCHANGED <<listening, rp_listening>>

\* --------------------- rx_property.py: ReactivePropertyMixin.watch_async
\* The consumer takes the first value: the queue is made, the handler is
\* added to the notifier of v, and the present value is yielded.
QWatchFirst(s) ==
    LET Yield(r) == [r EXCEPT !.s.qwatch = [pc |-> "yielded",
                                            val |-> <<r.val>>]]
        Read(r) == Yield(VGet(r.s))
    IN Read(EvAddHandler([s EXCEPT !.queue = <<>>], "put"))

QWatchStart ==
    /\ qwatch.pc = "idle"
    /\ Commit("QWatchStart", "v", QWatchFirst(St))
    /\ UNCHANGED <<listening, rp_listening>>

\* `await q.get()` with an item in the queue: the item is taken and
\* yielded.
QTake(s) ==
    Ret([s EXCEPT !.qwatch = [pc |-> "yielded", val |-> s.queue],
                  !.queue = <<>>], s.queue[1])

\* The consumer asks for the next value: q.task_done(), then
\* `await q.get()`, which returns at once if the queue holds an item and
\* suspends the task otherwise.
QWatchNext ==
    /\ qwatch.pc = "yielded"
    /\ Commit("QWatchNext", "v",
              IF queue # <<>> THEN QTake(St)
              ELSE Ret([St EXCEPT !.qwatch.pc = "waiting"], None))
    /\ UNCHANGED <<listening, rp_listening>>

\* The event loop runs the task that waits in q.get() once the queue holds
\* an item.
QWatchWake ==
    /\ qwatch.pc = "waiting"
    /\ queue # <<>>
    /\ Commit("QWatchWake", "v", QTake(St))
    /\ UNCHANGED <<listening, rp_listening>>

\* The consumer stops iterating, or its task is cancelled: the finally
\* block removes the handler.
QWatchClose ==
    /\ qwatch.pc \in {"yielded", "waiting"}
    /\ LET End(r) == [r EXCEPT !.s.qwatch.pc = "done"]
       IN Commit("QWatchClose", "v", End(EvRemoveHandler(St, "put")))
    /\ UNCHANGED <<listening, rp_listening>>

\* ----------------------------------------- what keeps obj reachable
\* The computed properties whose trigger and collection the library holds
\* for obj.  _get_computed_dependencies makes both on the first
\* computation: the trigger, a lambda that closes over obj, is a value of
\* the property's _triggers and the handler of the collection; the
\* collection is a value of _computed_dependencies, and the finalizer
\* that Disposable.__init__ registers holds its bound method _dispose.
\* The properties are class attributes and the finalizer registry is
\* module state, so these are held whatever user code holds.
LibraryHeld(s) == s.compdeps

\* The bindings the held collections keep alive, as values of _bindings.
LibraryHeldBindings(s) ==
    UNION {{s.cbindings[c][n] : n \in DOMAIN s.cbindings[c]} :
               c \in LibraryHeld(s)}

\* obj is reachable when user code holds it or a held trigger closes
\* over it.
InstanceReachable(s) == s.inst = "held" \/ LibraryHeld(s) # {}

\* User code lets go of its last reference to obj (del obj).
DropInstance ==
    /\ inst = "held"
    /\ Commit("DropInstance", None, Ret([St EXCEPT !.inst = "dropped"], None))
    /\ UNCHANGED <<listening, rp_listening>>

\* obj is freed once nothing refers to it: the entries it keys in the
\* WeakKeyDictionaries of the properties go with it.
FreeInstance ==
    /\ inst = "dropped"
    /\ ~InstanceReachable(St)
    /\ Commit("FreeInstance", None,
              Ret([St EXCEPT !.inst = "freed",
                             !.values = [q \in ValueProps |-> NotSet],
                             !.cache = [q \in Computeds |-> NoCache]],
                  None))
    /\ UNCHANGED <<listening, rp_listening>>

\* User code that still holds obj uses it.
UseComputed(p) == inst = "held" /\ ReadComputed(p)
UseValue(p) == inst = "held" /\ ReadValue(p)
UseValueSet(p, v) == inst = "held" /\ WriteValue(p, v)
UseX(v) == inst = "held" /\ WriteX(v)

\* The operations on the properties of obj.
Next ==
    \/ \E p \in ValueProps : ReadValue(p)
    \/ \E p \in ValueProps : \E v \in ValuesOf(p) : WriteValue(p, v)
    \/ ReadX
    \/ \E v \in XVals : WriteX(v)
    \/ \E p \in Computeds : ReadComputed(p)
    \/ \E p \in Computeds : \E v \in CacheVals(p) : WriteComputed(p, v)

Spec == Init /\ [][Next]_vars

\* User code that tracks dependencies by hand around its reads of x, cx
\* and flag.
TrackedValueProps == {"flag"}
TrackedComputeds == {"cx"}

NextTrack ==
    \/ \E c \in UserColls : ListenEnter(c)
    \/ \E exc \in BOOLEAN : ListenExit(exc)
    \/ RpListenEnter
    \/ \E exc \in BOOLEAN : RpListenExit(exc)
    \/ ReadX
    \/ \E v \in XVals : WriteX(v)
    \/ \E p \in TrackedComputeds : ReadComputed(p)
    \/ \E p \in TrackedValueProps : ReadValue(p)

SpecTrack == Init /\ [][NextTrack]_vars

\* binding = notifier.bind(h), on the notifier of obj.rp, for a handler
\* whose variable holds no binding.
UserBind(h) ==
    /\ kept[h] = NoBinding
    /\ LET Kept(r) ==
               [r EXCEPT !.s = Logged([r.s EXCEPT !.kept[h] = r.val],
                                      "bind", r.val)]
       IN Commit("UserBind", h, Kept(NotifierBind(St, "rp", User(h))))
    /\ UNCHANGED <<listening, rp_listening>>

\* The ways user code ends a binding it holds: binding.dispose(), leaving
\* `with binding:`, and binding.unbind().
Ways == {"dispose", "exit", "unbind"}

\* Disposable.dispose and Lifetime.__exit__ call _dispose; unbind is
\* called as it is.
EndBinding(s, i, how) ==
    IF how = "unbind" THEN BindingUnbind(s, i) ELSE BindingDispose(s, i)

\* User code ends the binding it holds for h, which it may have ended
\* before; the variable goes on holding the binding object.
UserDispose(h, how) ==
    /\ kept[h] # NoBinding
    /\ Commit(how, h, EndBinding(Logged(St, "dispose", kept[h]), kept[h], how))
    /\ UNCHANGED <<listening, rp_listening>>

\* User code asks the binding it holds for h whether it is alive.
UserIsAlive(h) ==
    /\ kept[h] # NoBinding
    /\ Commit("UserIsAlive", h, BindingIsAlive(St, kept[h]))
    /\ UNCHANGED <<listening, rp_listening>>

\* User code lets go of the binding object it holds for h.
UserRelease(h) ==
    /\ kept[h] # NoBinding
    /\ Commit("UserRelease", h,
              Ret(Collect([St EXCEPT !.kept[h] = NoBinding]), None))
    /\ UNCHANGED <<listening, rp_listening>>

\* value = obj.rp
ReadRp ==
    /\ Commit("ReadRp", "rp", RpGet(St))
    /\ UNCHANGED <<listening, rp_listening>>

\* obj.rp = v; `last` keeps the value written as the operation's argument.
WriteRp(v) ==
    /\ \E ord \in Orders : Commit("WriteRp", v, RpSet(StOrd(ord), v))
    /\ UNCHANGED <<listening, rp_listening>>

\* User code that binds handlers to the notifier of obj.rp by hand.
NextNotify ==
    \/ \E h \in UserHandlers : UserBind(h)
    \/ \E h \in UserHandlers : \E how \in Ways : UserDispose(h, how)
    \/ \E h \in UserHandlers : UserRelease(h)
    \/ \E h \in UserHandlers : UserIsAlive(h)
    \/ ReadRp
    \/ \E v \in IntVals : WriteRp(v)

SpecNotify == Init /\ [][NextNotify]_vars

\* Tasks that watch x, cx and flag while other code writes x and flag and
\* reads cx.
WatchedValueProps == {"flag"}
NextWatch ==
    \/ \E w \in Watchers : \E src \in Sources : WatchStart(w, src)
    \/ \E w \in Watchers : \E name \in Names : WatchpCall(w, name)
    \/ \E w \in Watchers : WatchNameStart(w)
    \/ \E w \in Watchers : WatchNext(w)
    \/ \E w \in Watchers : WatchWake(w)
    \/ \E w \in Watchers : WatchResume(w)
    \/ \E w \in Watchers : WatchClose(w)
    \/ \E v \in XVals : WriteX(v)
    \/ \E p \in TrackedComputeds : ReadComputed(p)
    \/ \E p \in WatchedValueProps : \E v \in ValuesOf(p) : WriteValue(p, v)

SpecWatch == Init /\ [][NextWatch]_vars

\* One task that watches x, cx = x * 10 or sel (which is a while flag
\* keeps its default) on a fair event loop, with a consumer that keeps
\* taking values: a task that is ready to run runs, and a
\* consumer that holds a value asks for the next one unless it closes the
\* stream.  The task's step after sleep(0) is enabled exactly while the
\* task is at "sleeping" and always leaves it, so its weak fairness is
\* stated on the task's position.
LiveWatchers == {"w1"}
LiveSources == {"x", "cx", "sel"}
LiveComputeds == {"cx", "sel"}
WatchFairness ==
    \A w \in LiveWatchers :
        /\ WF_vars(WatchNext(w))
        /\ WF_vars(WatchWake(w))
        /\ []<>(watch[w].pc # "sleeping")
NextWatchLive ==
    \/ \E w \in LiveWatchers : \E src \in LiveSources : WatchStart(w, src)
    \/ \E w \in LiveWatchers : WatchNext(w)
    \/ \E w \in LiveWatchers : WatchWake(w)
    \/ \E w \in LiveWatchers : WatchResume(w)
    \/ \E w \in LiveWatchers : WatchClose(w)
    \/ \E v \in XVals : WriteX(v)
    \/ \E v \in IntVals : WriteValue("a", v)
    \/ \E p \in LiveComputeds : ReadComputed(p)
SpecWatchLive == Init /\ [][NextWatchLive]_vars /\ WatchFairness

\* User code that tracks dependencies by hand, on either stack, around
\* its reads of obj.lst, and appends to the list.
NextList ==
    \/ \E c \in UserColls : ListenEnter(c)
    \/ \E exc \in BOOLEAN : ListenExit(exc)
    \/ RpListenEnter
    \/ \E exc \in BOOLEAN : RpListenExit(exc)
    \/ ReadList
    \/ AppendList

SpecList == Init /\ [][NextList]_vars

\* User code that reads and writes properties of obj, then drops obj.
NextGC ==
    \/ \E p \in Computeds : UseComputed(p)
    \/ \E p \in ValueProps : UseValue(p)
    \/ \E p \in ValueProps : \E v \in ValuesOf(p) : UseValueSet(p, v)
    \/ \E v \in XVals : UseX(v)
    \/ DropInstance
    \/ FreeInstance

SpecGC == Init /\ [][NextGC]_vars

\* User code that adds and removes its two mocks on the notifier of obj.v,
\* fires the notifier, writes v, and consumes one watch_async stream on v.
NextEvents ==
    \/ \E h \in EvMocks : EvAdd(h)
    \/ \E h \in EvMocks : EvRemove(h)
    \/ EvFireAll
    \/ \E v \in IntVals : WriteV(v)
    \/ QWatchStart
    \/ QWatchNext
    \/ QWatchWake
    \/ QWatchClose

SpecEvents == Init /\ [][NextEvents]_vars

\* User code that makes its collections and the two droppers track the
\* notifier of x by hand, and writes x.
NextDrop ==
    \/ \E c \in UserColls \cup Droppers : CollAdd(c)
    \/ \E c \in UserColls \cup Droppers : CollRemove(c)
    \/ ReadX
    \/ \E v \in XVals : WriteX(v)

SpecDrop == Init /\ [][NextDrop]_vars

\* ================================================================ claims
\* The stored value of a value property, or the default it would store.
ValueNow(p) == IF values[p] = NotSet THEN Default(p) ELSE values[p][1]

\* What sel and chain are meant to be in the current state.
SelNow == IF ValueNow("flag") THEN ValueNow("a") ELSE ValueNow("b")
ChainNow == SelNow + xval * 10

\* C1: whenever a computed property has a cache entry, the cached value is
\* the value its compute function returns when run on the current state.
C1_CacheCoherence ==
    \A p \in Computeds :
        cache[p] # NoCache =>
            LET Same(r) == ~r.exc /\ r.val = cache[p][1]
            IN Same(Compute(St, p))

\* C2: between two consecutive firings of the tracked dependencies of a
\* computed property its compute function is run to a value at most once,
\* however often the property is read.
C2_NoRedundantRecompute == \A p \in Computeds : since[p] <= 1

\* C3: a read of chain (which reads the computed sel, which reads the
\* value properties) that returns, returns the value derived from the
\* current a, b and flag, after at most one run of chain's compute function.
C3_TransitiveRecompute ==
    (last.op = "ReadComputed" /\ last.arg = "chain" /\ ~last.exc) =>
        /\ last.val = <<ChainNow>>
        /\ last.computes["chain"] <= 1

\* C4: in every operation in which a notifier held in a computed
\* property's dependency collection fires, that computed property loses
\* its cache entry and its own notifier is fired before the operation ends.
C4_InvalidationFires ==
    [][\A p \in Computeds : \A n \in DOMAIN cbindings[p] :
          last'.fired[n] > 0 =>
              cache'[p] = NoCache /\ last'.fired[p] > 0]_vars

C4_Witness ==
    /\ last.op = "WriteX"
    /\ "x" \in DOMAIN cbindings["cx"]
    /\ last.fired["x"] = 1
    /\ last.fired["cx"] = 1
    /\ cache["cx"] = NoCache

\* The computed properties whose collection holds notifier n, directly or
\* through the notifiers of other computed properties.
Direct(ns) == {q \in Computeds : DOMAIN cbindings[q] \cap ns # {}}

RECURSIVE Dependents(_)
Dependents(ns) ==
    LET more == ns \cup Direct(ns)
    IN IF more = ns THEN ns \cap Computeds ELSE Dependents(more)

\* C5: when a write that fires the notifier of the written property
\* returns, every computed property that tracks that notifier, directly or
\* through other computed properties, has no cache entry and has had its
\* own notifier fired.
C5_SynchronousPropagation ==
    [][\A n \in Notifiers :
          (/\ last'.op \in {"WriteValue", "WriteX", "WriteComputed"}
           /\ last'.arg = n
           /\ ~last'.exc
           /\ last'.fired[n] > 0) =>
              \A q \in Dependents({n}) \ {n} :
                  cache'[q] = NoCache /\ last'.fired[q] > 0]_vars

C5_Witness ==
    /\ last.op = "WriteX"
    /\ ~last.exc
    /\ "x" \in DOMAIN cbindings["cx"]
    /\ "cx" \in DOMAIN cbindings["chain"]
    /\ last.fired["chain"] = 1
    /\ cache["cx"] = NoCache
    /\ cache["chain"] = NoCache

\* The value property sel's compute function reads under the current flag.
NewDep == IF ValueNow("flag") THEN "a" ELSE "b"

\* C6: right after `read sel; toggle flag; read sel`, a write that changes
\* the value property sel now reads makes sel Dirty, and a write that
\* changes the one it no longer reads leaves it Clean.
C6_DynamicDependencies ==
    [][\A p \in {"a", "b"} :
          (/\ toggled = 3
           /\ last'.op = "WriteValue"
           /\ last'.arg = p
           /\ last'.fired[p] > 0) =>
              (cache'["sel"] = NoCache <=> p = NewDep)]_vars

\* The bindings of handler h in the WeakSet nb[n] of notifier n.
BoundIn(nb, bs, n, h) == {i \in nb[n] : bs[i].handler = h}
BoundTo(n, h) == BoundIn(nbindings, bindings, n, h)

\* C7: when a with block of collection c ends normally, c holds a binding
\* on exactly the notifiers announced in the block, each of them is bound
\* once to c's handler, and no other notifier is bound to it; the same
\* holds of cx's own collection after cx has been computed (its compute
\* function announces x and nothing else).
C7_ReconciliationExact ==
    [][/\ (last'.op = "ListenExit" /\ ~last'.exc) =>
              LET c == last'.arg
                  buffer == Top(dep_ctx_stack)
              IN /\ DOMAIN cbindings'[c] = buffer
                 /\ \A n \in buffer : cbindings'[c][n] \in
                            BoundIn(nbindings', bindings', n, Mock(c))
                 /\ \A n \in Notifiers :
                        Cardinality(BoundIn(nbindings', bindings', n, Mock(c))) =
                            IF n \in buffer THEN 1 ELSE 0
       /\ (/\ last'.op = "ReadComputed"
           /\ last'.arg = "cx"
           /\ ~last'.exc
           /\ last'.computes["cx"] = 1) =>
              /\ DOMAIN cbindings'["cx"] = {"x"}
              /\ \A n \in Notifiers :
                     Cardinality(BoundIn(nbindings', bindings', n,
                                         Trigger("cx"))) =
                         IF n = "x" THEN 1 ELSE 0]_vars

C7_Witness ==
    /\ last.op = "ListenExit"
    /\ ~last.exc
    /\ last.arg = "u1"
    /\ DOMAIN cbindings["u1"] = {"cx"}
    /\ DOMAIN cbindings["u2"] = {"x", "cx"}
    /\ BoundTo("x", Mock("u1")) = {}
    /\ Cardinality(nbindings["cx"]) = 2

\* C8: when a with block of collection c ends by an exception, c's
\* subscriptions are those it held before the block: no binding is added
\* for the notifiers announced in the block and none is removed.
C8_FailureSkipsReconcile ==
    [][(last'.op = "ListenExit" /\ last'.exc) =>
          /\ cbindings'[last'.arg] = cbindings[last'.arg]
          /\ nbindings' = nbindings]_vars

\* C9: every tracked computation leaves the stack it found: a with block
\* of user code, whether it ends normally or by an exception; a read that
\* computes cx inside any number of open blocks, whether the computation
\* returns or raises; and a computation of cx started by a handler while a
\* write is firing inside open blocks.  Between operations the stacks hold
\* one frame per open block.
C9_StackDiscipline ==
    [][/\ Len(dep_ctx_stack') = Len(listening')
       /\ Len(rp_dep_ctx_stack') = Len(rp_listening')
       /\ last'.balanced
       /\ last'.op = "ListenExit" =>
              dep_ctx_stack' = Top(listening).found
       /\ last'.op = "RpListenExit" =>
              rp_dep_ctx_stack' = Top(rp_listening).found
       /\ (last'.op = "ReadComputed" /\ last'.computes[last'.arg] > 0) =>
              /\ dep_ctx_stack' = dep_ctx_stack
              /\ rp_dep_ctx_stack' = rp_dep_ctx_stack]_vars

\* A write of x inside two open blocks whose fire called the handler of
\* u2, which computed cx, which raised.
C9_Witness ==
    /\ last.op = "WriteX"
    /\ last.exc
    /\ last.calls["u2"] > 0
    /\ last.computes["cx"] > 0
    /\ Len(dep_ctx_stack) = MaxDepth
    /\ dep_ctx_stack[1] # {}

\* All frames of a stack but the innermost.
Outer(stk) == SubSeq(stk, 1, Len(stk) - 1)

\* C10: a read announces to the innermost frame only: reading x adds x to
\* the top frame of reactive.py's stack, a read served from cx's cache adds
\* cx to it, reading flag adds flag to the top frame of
\* reactive_property.py's stack; no outer frame changes, and with an empty
\* stack reading x changes no state at all.
C10_InnermostOnly ==
    [][last'.op \in {"ReadX", "ReadComputed", "ReadValue"} =>
          /\ Len(dep_ctx_stack') = Len(dep_ctx_stack)
          /\ Len(rp_dep_ctx_stack') = Len(rp_dep_ctx_stack)
          /\ Outer(dep_ctx_stack') = Outer(dep_ctx_stack)
          /\ Outer(rp_dep_ctx_stack') = Outer(rp_dep_ctx_stack)
          /\ (last'.op = "ReadX" /\ dep_ctx_stack # <<>>) =>
                 Top(dep_ctx_stack') = Top(dep_ctx_stack) \cup {"x"}
          /\ (last'.op = "ReadX" /\ dep_ctx_stack = <<>>) =>
                 UNCHANGED <<values, xval, rpval, cache, compdeps, bindings,
                             nbindings, cbindings, kept, watch, lstlen, inst,
                             pv, ehandlers, queue, qwatch,
                             dep_ctx_stack,
                             listening, rp_dep_ctx_stack, rp_listening,
                             since>>
          /\ (/\ last'.op = "ReadComputed"
              /\ last'.computes[last'.arg] = 0
              /\ dep_ctx_stack # <<>>) =>
                 Top(dep_ctx_stack') = Top(dep_ctx_stack) \cup {last'.arg}
          /\ (last'.op = "ReadValue" /\ rp_dep_ctx_stack # <<>>) =>
                 Top(rp_dep_ctx_stack') =
                     Top(rp_dep_ctx_stack) \cup {last'.arg}]_vars

C10_Witness ==
    /\ last.op = "ReadX"
    /\ Len(dep_ctx_stack) = 2
    /\ "x" \in dep_ctx_stack[2]
    /\ "x" \notin dep_ctx_stack[1]
    /\ "cx" \in dep_ctx_stack[1]

\* C11: a read of a reactive value property made while a
\* DependencyCollection is listening puts the property's notifier into the
\* buffer of that collection.
C11_ReadsReachCollection ==
    [][(last'.op = "ReadValue" /\ listening # <<>>) =>
          last'.arg \in Top(dep_ctx_stack')]_vars

\* C12: a read that finds a computed property Clean returns the cached
\* value, does not run any compute function, leaves the cache as it is,
\* and adds the property's own notifier to the innermost frame, if there
\* is one, and to no other frame.
C12_CleanRead ==
    [][(last'.op = "ReadComputed" /\ cache[last'.arg] # NoCache) =>
          /\ ~last'.exc
          /\ last'.val = <<cache[last'.arg][1]>>
          /\ last'.computes = ZeroComputes
          /\ cache' = cache
          /\ dep_ctx_stack = <<>> => dep_ctx_stack' = <<>>
          /\ dep_ctx_stack # <<>> =>
                 /\ Top(dep_ctx_stack') = Top(dep_ctx_stack) \cup {last'.arg}
                 /\ Outer(dep_ctx_stack') = Outer(dep_ctx_stack)]_vars

C12_Witness ==
    /\ last.op = "ReadComputed"
    /\ last.arg = "cx"
    /\ ~last.exc
    /\ last.val = <<10>>
    /\ last.computes = ZeroComputes
    /\ Len(dep_ctx_stack) = 2
    /\ dep_ctx_stack[2] = {"cx"}
    /\ dep_ctx_stack[1] = {}

\* C13: a read that finds a computed property Dirty inside a with block,
\* and returns, adds the property's own notifier to the innermost frame
\* just as a Clean read does.
C13_DirtyReadAnnounces ==
    [][(/\ last'.op = "ReadComputed"
        /\ cache[last'.arg] = NoCache
        /\ ~last'.exc
        /\ dep_ctx_stack # <<>>) =>
          last'.arg \in Top(dep_ctx_stack')]_vars

\* C14: a read of a Dirty cx while x = 0 raises; a read of a computed
\* property that raises has run the property's compute function, found
\* the property Dirty and leaves it Dirty with no cache entry; and the next
\* read of the same property runs the compute function again.
C14_FailureStaysDirty ==
    [][/\ (/\ last'.op = "ReadComputed"
           /\ last'.arg = "cx"
           /\ cache["cx"] = NoCache
           /\ xval = 0) => last'.exc
       /\ (last'.op = "ReadComputed" /\ last'.exc) =>
              /\ cache[last'.arg] = NoCache
              /\ cache'[last'.arg] = NoCache
              /\ last'.computes[last'.arg] = 1
       /\ (/\ last.op = "ReadComputed"
           /\ last.exc
           /\ last'.op = "ReadComputed"
           /\ last'.arg = last.arg) =>
              last'.computes[last'.arg] = 1]_vars

C14_Witness ==
    /\ last.op = "ReadComputed"
    /\ last.arg = "chain"
    /\ last.exc
    /\ xval = 0
    /\ last.computes["chain"] = 1
    /\ last.computes["cx"] = 1
    /\ cache["chain"] = NoCache
    /\ cache["cx"] = NoCache

\* C15: every write to a computed property raises and changes neither the
\* cache nor any subscription, and fires no notifier.
C15_ComputedReadOnly ==
    [][last'.op = "WriteComputed" =>
          /\ last'.exc
          /\ cache' = cache
          /\ cbindings' = cbindings
          /\ nbindings' = nbindings
          /\ last'.fired = ZeroFired]_vars


\* How often the log of an operation says `ev` of binding i, and the
\* bindings it says `ev` of at all.
Count(log, ev, i) ==
    Cardinality({k \in 1..Len(log) : log[k].ev = ev /\ log[k].id = i})
Said(log, ev) == {log[k].id : k \in {j \in 1..Len(log) : log[j].ev = ev}}

\* C16: the fire caused by a write to rp calls no binding twice, calls only
\* bindings that were bound to the notifier when the fire started (so none
\* that a handler bound during the fire), and, when no handler raises,
\* calls exactly once every such binding that no handler disposed during
\* the fire.
C16_FireOncePerSnapshot ==
    [][last'.op = "WriteRp" =>
          /\ last'.fired["rp"] = 1
          /\ \A i \in Said(last'.log, "call") :
                 /\ Count(last'.log, "call", i) = 1
                 /\ i \in nbindings["rp"]
                 /\ i \notin Said(last'.log, "bind")
          /\ ~last'.exc =>
                 \A i \in nbindings["rp"] \ Said(last'.log, "dispose") :
                     Count(last'.log, "call", i) = 1]_vars

\* A write whose fire called h3 first: h3 bound h1 once more, the binding
\* of h1 from before the write was called, the new one was not and is
\* bound now.
C16_Witness ==
    /\ last.op = "WriteRp" /\ ~last.exc
    /\ Len(last.log) = 3
    /\ last.log[1].ev = "call" /\ last.log[1].id.h = User("h3")
    /\ last.log[2].ev = "bind" /\ last.log[2].id.h = User("h1")
    /\ last.log[3].ev = "call" /\ last.log[3].id.h = User("h1")
    /\ last.log[3].id # last.log[2].id
    /\ last.log[2].id \in nbindings["rp"]
    /\ kept["h1"] = last.log[2].id


\* C17: a disposed binding is not in its notifier's set; the fire caused
\* by a write to rp calls no binding that was disposed before the write,
\* and calls no binding after a handler of the same fire disposed it.
C17_DisposedNotCalled ==
    [][/\ \A i \in DOMAIN bindings' :
              bindings'[i].disposed = "True" => i \notin nbindings'[i.n]
       /\ last'.op = "WriteRp" =>
              /\ \A i \in DOMAIN bindings :
                     bindings[i].disposed = "True" =>
                         Count(last'.log, "call", i) = 0
              /\ \A j, k \in 1..Len(last'.log) :
                     (/\ j < k
                      /\ last'.log[j].ev = "dispose"
                      /\ last'.log[k].ev = "call")
                         => last'.log[k].id # last'.log[j].id]_vars

\* A write whose fire called h2 first: h2 disposed the binding of h1,
\* which was bound until then, and the fire ended without calling it.
C17_Witness ==
    /\ last.op = "WriteRp" /\ ~last.exc
    /\ Len(last.log) = 2
    /\ last.log[1].ev = "call" /\ last.log[1].id.h = User("h2")
    /\ last.log[2].ev = "dispose" /\ last.log[2].bound
    /\ last.log[2].id = kept["h1"]
    /\ bindings[kept["h1"]].disposed = "True"
    /\ kept["h1"] \notin nbindings["rp"]


\* C18: dispose(), leaving the with block and unbind() never raise.  On a
\* binding that was disposed before they change nothing: the notifier's
\* set and the binding are as the disposal left them.  On a binding that
\* was unbound before, unbind() changes nothing, and dispose() and the
\* with exit, being its first disposal, leave the set alone and only mark
\* the binding disposed.
C18_DisposalIdempotent ==
    [][last'.op \in Ways =>
          LET i == kept[last'.arg]
          IN /\ ~last'.exc
             /\ kept' = kept
             /\ bindings[i].disposed = "True" =>
                    nbindings' = nbindings /\ bindings' = bindings
             /\ (bindings[i].notifier = None /\ last'.op = "unbind") =>
                    nbindings' = nbindings /\ bindings' = bindings
             /\ bindings[i].notifier = None =>
                    /\ nbindings' = nbindings
                    /\ bindings' \in {bindings,
                                      [bindings EXCEPT ![i].disposed = "True"]}
          ]_vars

\* dispose() has just been called on a binding that was disposed before,
\* while another handler is bound to the notifier.
C18_Witness ==
    /\ last.op = "dispose" /\ ~last.exc
    /\ Len(last.log) = 1
    /\ last.log[1].ev = "dispose" /\ last.log[1].was = "True"
    /\ ~last.log[1].bound
    /\ last.log[1].id = kept[last.arg]
    /\ bindings[kept[last.arg]].disposed = "True"
    /\ nbindings["rp"] # {}


\* C19: a write to rp raises exactly when its fire calls h4, the handler
\* that raises; the call of h4 is then the last thing the fire does, so
\* the bindings it had not called yet stay uncalled; and the value written
\* is stored all the same.
C19_HandlerExceptionPropagates ==
    [][last'.op = "WriteRp" =>
          LET log == last'.log
              raisers == {k \in 1..Len(log) :
                              log[k].ev = "call" /\ log[k].id.h = User("h4")}
          IN /\ last'.exc <=> raisers # {}
             /\ \A k \in raisers : k = Len(log)
             /\ rpval' = last'.arg]_vars

\* A write whose fire called h4 first: the write raised, and h1, bound
\* before the write and still bound, was not called.
C19_Witness ==
    /\ last.op = "WriteRp" /\ last.exc
    /\ Len(last.log) = 1
    /\ last.log[1].ev = "call" /\ last.log[1].id.h = User("h4")
    /\ kept["h1"] \in nbindings["rp"]
    /\ kept["h4"] \in nbindings["rp"]
    /\ rpval = last.arg


\* C20: a write to rp stores the value and then fires rp's notifier
\* exactly once, whether or not the value differs from the one stored
\* before; every value h1 read during the fire is the value written, and
\* h1 read it whenever it was called.
C20_StoreThenFire ==
    [][last'.op = "WriteRp" =>
          /\ rpval' = last'.arg
          /\ last'.fired["rp"] = 1
          /\ last'.seen \subseteq {last'.arg}
          /\ (\E i \in Said(last'.log, "call") : i.h = User("h1")) =>
                 last'.seen = {last'.arg}]_vars

\* A write of the value that was stored already: the notifier fired and
\* h1, called by the fire, read that value.
C20_Witness ==
    /\ last.op = "WriteRp" /\ ~last.exc
    /\ last.arg = last.rpwas
    /\ last.fired["rp"] = 1
    /\ \E i \in Said(last.log, "call") : i.h = User("h1")
    /\ last.seen = {last.arg}
    /\ rpval = last.arg


\* C21: a write to a value property that leaves it holding the value it
\* held before the write (the stored value, or the default when nothing
\* was stored yet) fires no notifier at all and changes no cache entry and
\* no binding; a write always leaves the written value stored, so these
\* are exactly the writes of a value equal to the current one.
C21_NoOpWrite ==
    [][(/\ last'.op = "WriteValue"
        /\ values'[last'.arg] = <<ValueNow(last'.arg)>>) =>
          /\ last'.fired = ZeroFired
          /\ ~last'.exc
          /\ cache' = cache
          /\ nbindings' = nbindings
          /\ \A q \in ValueProps \ {last'.arg} : values'[q] = values[q]]_vars

\* The default of flag has just been written to flag before flag was ever
\* read or written: the value is stored now and nothing fired.
C21_Witness ==
    /\ last.op = "WriteValue" /\ last.arg = "flag"
    /\ values["flag"] = <<Default("flag")>>
    /\ last.fired = ZeroFired
    /\ values["a"] = NotSet /\ values["b"] = NotSet
    /\ cache = [p \in Computeds |-> NoCache]


\* C22: on a fair event loop with a consumer that keeps iterating, a
\* stream whose handler has been called since its last evaluation (a
\* notifier it tracks has fired) reaches a state where it has yielded a
\* value evaluated after every call so far, unless the stream has ended
\* by then; this holds wherever in its loop the stream was when the
\* handler was called.
C22_LastValueMandatory ==
    \A w \in LiveWatchers :
        (watch[w].pending > 0 /\ watch[w].pc # "done")
            ~> (\/ watch[w].pc = "yielded" /\ watch[w].pending = 0
                \/ watch[w].pc = "done")

\* A stream has just been resumed after its sleep(0) and has yielded the
\* current value of x in answer to two calls of its handler.
C22_Witness ==
    \E w \in Watchers :
        /\ last.op = "WatchResume" /\ last.arg = w /\ ~last.exc
        /\ watch[w].pc = "yielded" /\ watch[w].pending = 0
        /\ last.took = 2
        /\ watch[w].src = "x" /\ watch[w].val = <<xval>>


\* What the function of a stream on src returns in the current state.
SourceNow(src) ==
    CASE src = "x" -> xval
      [] src = "cx" -> xval * 10
      [] src = "sel" -> SelNow
      [] src = "flag" -> ValueNow("flag")

\* C23: a stream of watchf stands between changed.wait() and its next
\* evaluation only if its handler has been called since its last
\* evaluation, and the step that resumes it evaluates the function once
\* for all of those calls: afterwards the flag is clear, no call is left
\* unanswered, and a value it yields is the function's value on the state
\* of that moment, which holds the last write.
C23_Coalescing ==
    [][\A w \in Watchers :
          /\ (watch[w].pc \in {"woken", "sleeping"}) =>
                 watch[w].changed /\ watch[w].pending >= 1
          /\ (last'.op = "WatchResume" /\ last'.arg = w) =>
                 /\ last'.evals = [ZeroEvals EXCEPT ![w] = 1]
                 /\ last'.took = watch[w].pending
                 /\ ~watch'[w].changed
                 /\ watch'[w].pending = 0
                 /\ ~last'.exc =>
                        /\ watch'[w].pc = "yielded"
                        /\ watch'[w].val = <<SourceNow(watch[w].src)'>>
                        /\ last'.val = watch'[w].val]_vars

\* A stream on x has just answered two calls of its handler with one
\* evaluation, and the value it yields is the x of now.
C23_Witness ==
    \E w \in Watchers :
        /\ last.op = "WatchResume" /\ last.arg = w /\ ~last.exc
        /\ last.took = 2 /\ last.evals[w] = 1
        /\ watch[w].src = "x" /\ watch[w].by = "f"
        /\ watch[w].val = <<xval>> /\ ~watch[w].changed


\* C24: on a fair event loop with a consumer that keeps iterating, a
\* stream on a computed property (cx = x * 10, or sel = a) that holds a
\* value other than the property's present value comes to hold the present
\* one (or ends), after every change of x or a and whether or not the
\* property is read by anyone else in between.
C24_ComputedWatchDelivers ==
    \A w \in LiveWatchers :
        \A src \in LiveComputeds :
            (/\ watch[w].src = src
             /\ watch[w].pc \notin {"idle", "done"}
             /\ watch[w].val # <<SourceNow(src)>>)
                ~> (\/ watch[w].val = <<SourceNow(src)>>
                    \/ watch[w].pc = "done")


\* C25: when the consumer has just stopped iterating a stream, no
\* notifier holds a binding to the stream's handler any more.
C25_CancelUnsubscribes ==
    last.op = "WatchClose" =>
        \A n \in Notifiers :
            \A i \in nbindings[n] : i.h # Setter(last.arg)


\* C26: when the function of a stream raises in the step that resumes
\* the stream, the step raises to the consumer and the stream is over;
\* a stream that is over yields no further value and evaluates its
\* function no more, whatever fires afterwards.
C26_FailureEndsWatch ==
    [][\A w \in Watchers :
          /\ (/\ last'.op = "WatchResume" /\ last'.arg = w
              /\ watch[w].src = "cx" /\ xval = 0) => last'.exc
          /\ (last'.op = "WatchResume" /\ last'.arg = w /\ last'.exc) =>
                 /\ watch'[w].pc = "done"
                 /\ watch'[w].val = watch[w].val
                 /\ last'.val = <<>>
          /\ watch[w].pc = "done" =>
                 /\ watch'[w].pc = "done"
                 /\ watch'[w].val = watch[w].val
                 /\ last'.evals[w] = 0]_vars

\* A stream on cx that had yielded 10 has just been resumed with x = 0:
\* the function raised and the stream is over.
C26_Witness ==
    \E w \in Watchers :
        /\ last.op = "WatchResume" /\ last.arg = w /\ last.exc
        /\ watch[w].src = "cx" /\ xval = 0
        /\ watch[w].pc = "done" /\ watch[w].val = <<10>>


\* The steps of the task that consumes a stream; last.arg names the stream.
WatchOps ==
    {"WatchStart", "WatchNameStart", "WatchNext", "WatchWake",
     "WatchResume", "WatchClose"}
\* The bindings of the handler of stream w in the registry `reg`.
SetterBindings(reg, w) ==
    {i \in UNION {reg[n] : n \in Notifiers} : i.h = Setter(w)}

\* C27: a step of one stream (first value, next, wake-up, resumption with
\* its recomputation, close) leaves the position, flag, value,
\* collection and bindings of every other stream as they were; and a
\* firing of a notifier sets the flag of every stream whose handler is
\* bound to it, none of them left waiting.
C27_IndependentWatchers ==
    [][\A w \in Watchers :
          /\ (last'.op \in WatchOps /\ last'.arg # w) =>
                 /\ watch'[w] = watch[w]
                 /\ cbindings'[w] = cbindings[w]
                 /\ SetterBindings(nbindings', w) = SetterBindings(nbindings, w)
          /\ \A n \in Notifiers :
                 (/\ last'.fired[n] > 0
                  /\ \E i \in nbindings[n] : i.h = Setter(w)) =>
                     /\ watch'[w].changed
                     /\ watch'[w].pending >= 1
                     /\ watch'[w].pc # "waiting"]_vars

\* Both streams watch x and x has changed since their last values: w1 has
\* just been resumed and holds the present x, while w2 still has its flag
\* set and its older value.
C27_Witness ==
    /\ last.op = "WatchResume" /\ last.arg = "w1"
    /\ watch["w1"].src = "x" /\ watch["w1"].pc = "yielded"
    /\ watch["w1"].val = <<xval>> /\ ~watch["w1"].changed
    /\ watch["w2"].src = "x" /\ watch["w2"].pc \in {"woken", "sleeping"}
    /\ watch["w2"].changed /\ watch["w2"].val # <<xval>>
    /\ SetterBindings(nbindings, "w1") # {}
    /\ SetterBindings(nbindings, "w2") # {}


\* C28: the first value of a stream made by watchp is the present value
\* of the property, whether the property was given by reference or by
\* name: the step yields it and raises nothing (unless the property's
\* own function raises, as cx does while x = 0).
C28_NameEqualsReference ==
    [][\A w \in Watchers : \A src \in {"flag", "cx"} :
          (/\ last'.op \in {"WatchStart", "WatchNameStart"}
           /\ last'.arg = w
           /\ watch'[w].src = src
           /\ src = "cx" => xval # 0) =>
              /\ ~last'.exc
              /\ watch'[w].pc = "yielded"
              /\ last'.val = <<SourceNow(src)'>>]_vars


\* C29: watchp with a name that is not the name of a reactive property of
\* the class (a name the class does not have, or the plain attribute x)
\* raises ValueError, and no stream is made.
C29_InvalidName ==
    [][(last'.op = "WatchpCall" /\ last'.arg \in {"missing", "x"}) =>
          /\ last'.exc
          /\ last'.err = "ValueError"
          /\ watch' = watch]_vars


\* C30: a read of obj.lst inside a tracking block leaves both the notifier
\* of the property and the notifier of the list itself in the innermost
\* frame of a stack that is being listened on.
C30_ObservableValueAnnounced ==
    [][(last'.op = "ReadList" /\ Depth > 0) =>
          \/ /\ dep_ctx_stack' # <<>>
             /\ {"lst", "items"} \subseteq Top(dep_ctx_stack')
          \/ /\ rp_dep_ctx_stack' # <<>>
             /\ {"lst", "items"} \subseteq Top(rp_dep_ctx_stack')]_vars


\* C31: when a stream on the computed property cx is resumed and yields,
\* the value it yields differs from the one it yielded before.
C31_NoYieldWithoutChange ==
    [][\A w \in Watchers :
          (/\ last'.op = "WatchResume" /\ last'.arg = w
           /\ watch[w].src = "cx"
           /\ watch'[w].pc = "yielded") =>
              watch'[w].val # watch[w].val]_vars


\* C32: once user code has dropped obj, the library's own state keeps
\* neither obj nor a dependency binding of one of its computed properties
\* reachable.
C32_NoForcedKeepAlive ==
    inst # "held" =>
        /\ ~InstanceReachable(St)
        /\ LibraryHeldBindings(St) = {}
        /\ \A n \in Notifiers :
               \A i \in nbindings[n] : i.h.kind # "trigger"


\* The number of times handler h is registered in the dictionary d.
Registered(d, h) == IF h \in DOMAIN d THEN d[h] ELSE 0

\* C33: on the notifier of events.py every add_handler raises the
\* handler's registration count by one and every remove_handler of a
\* registered handler lowers it by one, so a handler added n times is
\* registered until it has been removed n times; and every fire calls
\* each registered handler exactly once, whatever its count, and no
\* handler that is not registered.
C33_RefCountedRegistration ==
    [][\A h \in EvMocks :
          /\ (last'.op = "EvAdd" /\ last'.arg = h) =>
                 Registered(ehandlers', h) = Registered(ehandlers, h) + 1
          /\ (last'.op = "EvRemove" /\ last'.arg = h
                  /\ Registered(ehandlers, h) > 0) =>
                 Registered(ehandlers', h) = Registered(ehandlers, h) - 1
          /\ (last'.op \in {"EvAdd", "EvRemove"} /\ last'.arg # h) =>
                 Registered(ehandlers', h) = Registered(ehandlers, h)
          /\ (last'.op \in {"EvFireAll", "WriteV"}) =>
                 /\ last'.ecalls[h] =
                        IF Registered(ehandlers, h) > 0 THEN 1 ELSE 0
                 /\ ehandlers' = ehandlers]_vars

\* m1 is registered once and m2 twice, and the fire that has just ended
\* called each of them once.
C33_Witness ==
    /\ last.op = "EvFireAll"
    /\ Registered(ehandlers, "m1") = 1
    /\ last.ecalls["m1"] = 1
    /\ Registered(ehandlers, "m2") = 2
    /\ last.ecalls["m2"] = 1

\* C34: remove_handler for a handler that is not registered raises
\* nothing and leaves the dictionary as it was.
C34_RemoveUnregistered ==
    [][(last'.op = "EvRemove" /\ Registered(ehandlers, last'.arg) = 0) =>
          /\ ~last'.exc
          /\ ehandlers' = ehandlers]_vars


\* C35: the default factory of a value property runs only while the
\* property has no stored value, once, and never in a write of the
\* property; a stored value is never lost again, so the factory runs at
\* most once for obj.
C35_LazyDefault ==
    [][\A p \in ValueProps :
          /\ last'.factory[p] > 0 =>
                 /\ values[p] = NotSet
                 /\ last'.factory[p] = 1
          /\ (last'.op = "WriteValue" /\ last'.arg = p) =>
                 last'.factory[p] = 0
          /\ values[p] # NotSet => values'[p] # NotSet]_vars


\* C36: in no operation is the handler of a collection called after a
\* handler called earlier in the operation made the collection drop its
\* dependencies.
C36_DroppedNotInvoked ==
    [][last'.late = 0]_vars


\* C37: a stream of watchf evaluates its function only in the step that
\* takes its first value and in the steps that resume it, and it is
\* resumed only if its handler has been called since its previous
\* evaluation; a stream suspended in changed.wait() stays there, with the
\* value it yielded, through every step that fires none of the notifiers
\* its handler is bound to.
C37_NoSpuriousYield ==
    [][\A w \in Watchers :
          LET WatchedBy(v) ==
                  {n \in Notifiers : \E i \in nbindings[n] : i.h = Setter(v)}
          IN
          (watch[w].by = "f" /\ watch'[w].by = "f") =>
              /\ (last'.op = "WatchResume" /\ last'.arg = w) =>
                     watch[w].pending >= 1 /\ last'.took >= 1
              /\ (last'.evals[w] > 0) =>
                     last'.op = "WatchResume" /\ last'.arg = w
              /\ (/\ watch[w].pc = "waiting"
                  /\ \A n \in WatchedBy(w) : last'.fired[n] = 0) =>
                     watch'[w] = watch[w]]_vars

\* A stream on x waits in changed.wait() with the present x while a write
\* of flag has just fired the notifier of flag.
C37_Witness ==
    \E w \in Watchers :
        /\ watch[w].by = "f" /\ watch[w].src = "x"
        /\ watch[w].pc = "waiting" /\ watch[w].val = <<xval>>
        /\ watch[w].pending = 0 /\ ~watch[w].changed
        /\ last.op = "WriteValue" /\ last.fired["flag"] > 0


\* C38: whenever the consumer of the queue-based stream is suspended in
\* q.get() on an empty queue, so that it has received every value it is
\* going to receive for the writes made so far, the value it received
\* last is the present value of the property, the one of the last write.
C38_QueueKeepsFinalValue ==
    (qwatch.pc = "waiting" /\ queue = <<>>) => qwatch.val = <<pv>>


\* C39: is_alive() of a binding that user code got from Notifier.bind
\* raises nothing, and answers true until the binding's first disposal
\* and false afterwards.
C39_IsAliveDefined ==
    [][\A h \in UserHandlers :
          (last'.op = "UserIsAlive" /\ last'.arg = h) =>
              /\ ~last'.exc
              /\ last'.val = <<bindings[kept[h]].disposed # "True">>]_vars


\* C40: whenever a stream is suspended (holding a yielded value, in
\* changed.wait() before or after the flag is set, or in sleep(0)) both
\* dependency-tracking stacks are empty, so no frame of it is on them; and
\* a step of other code (a read or a write by the consumer or another
\* task, or a step of another stream) leaves the dependencies of a
\* suspended stream as they were.
C40_NoFrameAcrossSuspension ==
    [][\A w \in Watchers :
          LET Suspended == {"yielded", "waiting", "woken", "sleeping"}
          IN
          /\ (watch'[w].pc \in Suspended) =>
                 dep_ctx_stack' = <<>> /\ rp_dep_ctx_stack' = <<>>
          /\ (/\ watch[w].pc \in Suspended
              /\ ~(last'.op \in WatchOps /\ last'.arg = w)) =>
                 cbindings'[w] = cbindings[w]]_vars

\* While the stream w1 on x waits in changed.wait() and w2, also on x,
\* holds a value, other code has just read cx and computed it, which read
\* x: both streams still track x alone.
C40_Witness ==
    /\ watch["w1"].by = "f" /\ watch["w1"].src = "x"
    /\ watch["w1"].pc = "waiting"
    /\ watch["w2"].by = "f" /\ watch["w2"].src = "x"
    /\ watch["w2"].pc = "yielded"
    /\ last.op = "ReadComputed" /\ last.computes["cx"] > 0
    /\ DOMAIN cbindings["w1"] = {"x"}
    /\ DOMAIN cbindings["w2"] = {"x"}
    /\ dep_ctx_stack = <<>> /\ rp_dep_ctx_stack = <<>>
====
